---- MODULE Spec2Model ----
(***************************************************************************)
(* A model of package filetree (src/filetree/tree.go): FileTree, its path  *)
(* operations (GetNode, AddPath, RemovePath), Copy, Stack, Compare,        *)
(* StackRange and the row computation of renderStringTreeBetween.          *)
(*                                                                         *)
(* Strings are sequences of one-character strings, so that strings.Trim,   *)
(* strings.Split, strings.HasPrefix and sort.Strings are computed and not  *)
(* assumed.  A *FileNode is modelled by its key: the sequence of the names *)
(* from the root (excluded) to the node; the root is the empty key.        *)
(* A FileTree is [nodes, Size]: nodes maps each key of the tree to the     *)
(* node's Data (FileInfo, DiffType, ViewInfo), Size is the Size field.     *)
(*                                                                         *)
(* The node-level file of the package (FileNode: AddChild, Remove, Copy,   *)
(* IsWhiteout, Path, VisitDepthChildFirst, compare, AssignDiffType,        *)
(* deriveDiffType, renderTreeLine) is not among the source files; those    *)
(* operators are modelled from the design document and are marked so.      *)
(***************************************************************************)
EXTENDS Naturals, Sequences, FiniteSets, TLC

VARIABLES trees, last

vars == <<trees, last>>

(***************************************************************************)
(* Bounds of the model.                                                    *)
(***************************************************************************)
\* AddPath is offered only when it leaves the receiver with at most this
\* number of nodes.
MaxNodes == 3

\* The layers of SpecRange are trees[0] .. trees[MaxLayer].
MaxLayer == 2

(***************************************************************************)
(* Constants of tree.go (lines 11-21).                                     *)
(***************************************************************************)
whiteoutPrefix == <<".", "w", "h", ".">>

doubleWhiteoutPrefix == <<".", "w", "h", ".", ".", "w", "h", ".", ".">>

\* The glyphs are written in ASCII.
middleItem == "|-"

lastItem == "+-"

uncollapsedItem == "- "

collapsedItem == "@ "

(***************************************************************************)
(* Strings.                                                                *)
(***************************************************************************)
\* strings.HasPrefix
HasPrefix(s, prefix) ==
    /\ Len(s) >= Len(prefix)
    /\ SubSeq(s, 1, Len(prefix)) = prefix

\* strings.TrimPrefix
TrimPrefix(s, prefix) ==
    IF HasPrefix(s, prefix) THEN SubSeq(s, Len(prefix) + 1, Len(s)) ELSE s

\* strings.Trim(path, "/")
RECURSIVE TrimSlashes(_)
TrimSlashes(s) ==
    IF s = <<>> THEN s
    ELSE IF Head(s) = "/" THEN TrimSlashes(Tail(s))
    ELSE IF s[Len(s)] = "/" THEN TrimSlashes(SubSeq(s, 1, Len(s) - 1))
    ELSE s

\* strings.Split(s, "/"): the empty string splits into one empty segment.
RECURSIVE SplitSlash(_)
SplitSlash(s) ==
    IF \A i \in 1..Len(s) : s[i] # "/" THEN <<s>>
    ELSE LET i == CHOOSE i \in 1..Len(s) :
                      s[i] = "/" /\ \A j \in 1..(i - 1) : s[j] # "/"
         IN  <<SubSeq(s, 1, i - 1)>> \o SplitSlash(SubSeq(s, i + 1, Len(s)))

\* strings.Join(names, "/")
RECURSIVE JoinSlash(_)
JoinSlash(names) ==
    IF names = <<>> THEN <<>>
    ELSE IF Len(names) = 1 THEN names[1]
    ELSE names[1] \o <<"/">> \o JoinSlash(Tail(names))

\* The byte of a character, as sort.Strings compares them.
CharCode(c) ==
    CASE c = "." -> 46 [] c = "/" -> 47
      [] c = "a" -> 97 [] c = "b" -> 98 [] c = "c" -> 99 [] c = "d" -> 100
      [] c = "e" -> 101 [] c = "h" -> 104 [] c = "o" -> 111 [] c = "w" -> 119
      [] c = "x" -> 120

\* s < t in the byte-wise lexicographic order of Go strings.
RECURSIVE StringLess(_, _)
StringLess(s, t) ==
    IF t = <<>> THEN FALSE
    ELSE IF s = <<>> THEN TRUE
    ELSE IF Head(s) = Head(t) THEN StringLess(Tail(s), Tail(t))
    ELSE CharCode(Head(s)) < CharCode(Head(t))

\* sort.Strings of a set of distinct strings.
RECURSIVE SortStrings(_)
SortStrings(S) ==
    IF S = {} THEN <<>>
    ELSE LET m == CHOOSE x \in S : \A y \in S \ {x} : StringLess(x, y)
         IN  <<m>> \o SortStrings(S \ {m})

(***************************************************************************)
(* Data carried by a node.                                                 *)
(***************************************************************************)
\* FileInfo{}: the payload of an intermediate node and of the root.
EmptyFileInfo == [Size |-> 0, IsDir |-> FALSE]

FileInfoOf(size) == [Size |-> size, IsDir |-> FALSE]

\* The DiffType values; Unset is the value before the first classification.
Unset == "Unset"

Unmodified == "Unmodified"

Modified == "Modified"

Added == "Added"

Removed == "Removed"

\* NewNode: the Data of a node just created.
NewData(data) ==
    [FileInfo |-> data, DiffType |-> Unset, Hidden |-> FALSE, Collapsed |-> FALSE]

\* A nil *FileNode: a key no node has (no node has an empty name).
NilNode == << <<>> >>

Root == <<>>

\* NewFileTree (tree.go 33-41)
NewFileTree == [nodes |-> (Root :> NewData(EmptyFileInfo)), Size |-> 0]

(***************************************************************************)
(* FileNode (modelled from the design document).                           *)
(***************************************************************************)
Name(node) == IF node = Root THEN <<>> ELSE node[Len(node)]

Parent(node) == SubSeq(node, 1, Len(node) - 1)

\* The keys of node.Children.
Children(tree, node) ==
    {k \in DOMAIN tree.nodes : Len(k) = Len(node) + 1 /\ Parent(k) = node}

\* The keys of the subtree rooted at node, node included.
Subtree(tree, node) ==
    {k \in DOMAIN tree.nodes :
        Len(k) >= Len(node) /\ SubSeq(k, 1, Len(node)) = node}

\* A name AddChild refuses ("a null result ... e.g. invalid name").
InvalidName(name) == name = <<>>

\* node.AddChild(name, data): registers the child and increments tree.Size;
\* a nil node when the child cannot be created.
AddChild(tree, node, name, data) ==
    IF InvalidName(name) THEN [tree |-> tree, node |-> NilNode]
    ELSE [tree |-> [nodes |-> (Append(node, name) :> NewData(data)) @@ tree.nodes,
                    Size  |-> tree.Size + 1],
          node |-> Append(node, name)]

\* node.Remove(): detaches the node and its subtree, decrementing tree.Size
\* for every node removed; the root cannot be removed.
Remove(tree, node) ==
    IF node = Root THEN [tree |-> tree, err |-> TRUE]
    ELSE LET gone == Subtree(tree, node)
         IN  [tree |-> [nodes |-> [k \in (DOMAIN tree.nodes) \ gone |-> tree.nodes[k]],
                        Size  |-> tree.Size - Cardinality(gone)],
              err  |-> FALSE]

\* node.IsWhiteout(): the name carries the whiteout prefix.
IsWhiteout(node) == HasPrefix(Name(node), whiteoutPrefix)

\* node.Path(): "/" and the "/"-joined names from the root to the node; the
\* node's own name is taken without its whiteout prefix, so that the path of
\* a whiteout node is the path it shadows.
Path(node) ==
    IF node = Root THEN <<"/">>
    ELSE <<"/">> \o JoinSlash(Append(Parent(node), TrimPrefix(Name(node), whiteoutPrefix)))

\* DiffType precedence: Removed > Modified > Added > Unmodified (> unset).
Severity(t) ==
    CASE t = Removed -> 4 [] t = Modified -> 3 [] t = Added -> 2
      [] t = Unmodified -> 1 [] t = Unset -> 0

\* combine(a, b) = max-by-severity(a, b)
Combine(a, b) == IF Severity(a) >= Severity(b) THEN a ELSE b

RECURSIVE CombineAll(_, _)
CombineAll(t, S) ==
    IF S = {} THEN t
    ELSE LET x == CHOOSE x \in S : TRUE IN CombineAll(Combine(t, x), S \ {x})

\* node.compare(other): Unmodified only when every attribute of the two
\* payloads matches.
compare(lowerData, upperData) ==
    IF lowerData.FileInfo = upperData.FileInfo THEN Unmodified ELSE Modified

\* node.AssignDiffType(t): a classification is escalated, never weakened.
AssignDiffType(tree, node, t) ==
    [tree EXCEPT !.nodes[node].DiffType = Combine(@, t)]

\* node.deriveDiffType(t): the least-unmodified classification among t, the
\* node's current one and its children's.
deriveDiffType(tree, node, t) ==
    AssignDiffType(tree, node,
        CombineAll(t, {tree.nodes[k].DiffType : k \in Children(tree, node)}))

RECURSIVE Perms(_)
Perms(S) ==
    IF S = {} THEN {<<>>}
    ELSE UNION {{<<x>> \o p : p \in Perms(S \ {x})} : x \in S}

\* node.VisitDepthChildFirst: the orders in which the visitor can meet the
\* nodes of the subtree of node: every child's subtree, then the node.  The
\* children are the keys of a map; their order is not fixed.
RECURSIVE VisitOrders(_, _)
RECURSIVE ConcatOrders(_, _)
ConcatOrders(tree, kids) ==
    IF kids = <<>> THEN {<<>>}
    ELSE {a \o b : a \in VisitOrders(tree, Head(kids)),
                   b \in ConcatOrders(tree, Tail(kids))}

VisitOrders(tree, node) ==
    {o \o <<node>> :
        o \in UNION {ConcatOrders(tree, p) : p \in Perms(Children(tree, node))}}

(***************************************************************************)
(* FileTree: path operations (tree.go 192-246).                            *)
(***************************************************************************)
\* The loop of GetNode (196-204) from position idx of nodeNames.
RECURSIVE GetNodeLoop(_, _, _, _)
GetNodeLoop(tree, node, nodeNames, idx) ==
    IF idx > Len(nodeNames) THEN [node |-> node, err |-> FALSE]
    ELSE LET name == nodeNames[idx] IN
         IF name = <<>> THEN GetNodeLoop(tree, node, nodeNames, idx + 1)
         ELSE IF Append(node, name) \notin DOMAIN tree.nodes
              THEN [node |-> NilNode, err |-> TRUE]
         ELSE GetNodeLoop(tree, Append(node, name), nodeNames, idx + 1)

\* tree.GetNode(path) (193-206)
GetNode(tree, path) ==
    GetNodeLoop(tree, Root, SplitSlash(TrimSlashes(path)), 1)

\* The loop of AddPath (212-235) from position idx of nodeNames.
RECURSIVE AddPathLoop(_, _, _, _, _)
AddPathLoop(tree, node, nodeNames, idx, data) ==
    IF idx > Len(nodeNames) THEN [tree |-> tree, node |-> node, err |-> FALSE]
    ELSE LET name == nodeNames[idx] IN
         IF name = <<>> THEN AddPathLoop(tree, node, nodeNames, idx + 1, data)
         ELSE LET found == Append(node, name) \in DOMAIN tree.nodes
                  added == AddChild(tree, node, name, EmptyFileInfo)
                  next  == IF found THEN Append(node, name) ELSE added.node
                  t1    == IF found THEN tree ELSE added.tree
              IN  IF next = NilNode
                  THEN [tree |-> t1, node |-> NilNode, err |-> TRUE]
                  ELSE LET t2 == IF idx = Len(nodeNames)
                                 THEN [t1 EXCEPT !.nodes[next].FileInfo = data]
                                 ELSE t1
                       IN  AddPathLoop(t2, next, nodeNames, idx + 1, data)

\* AddPath without the strings.Trim of line 210.
AddPathWithoutTrim(tree, path, data) ==
    AddPathLoop(tree, Root, SplitSlash(path), 1, data)

\* tree.AddPath(path, data) (209-237)
AddPath(tree, path, data) ==
    AddPathLoop(tree, Root, SplitSlash(TrimSlashes(path)), 1, data)

\* tree.RemovePath(path) (240-246)
RemovePath(tree, path) ==
    LET got == GetNode(tree, path)
    IN  IF got.err THEN [tree |-> tree, err |-> TRUE]
        ELSE Remove(tree, got.node)

\* tree.markRemoved(path) (275-281)
markRemoved(tree, path) ==
    LET got == GetNode(tree, path)
    IN  IF got.err THEN [tree |-> tree, err |-> TRUE]
        ELSE [tree |-> AssignDiffType(tree, got.node, Removed), err |-> FALSE]

\* Copy without line 144: the new tree keeps the Size of NewFileTree.
CopyWithoutSize(tree) ==
    [nodes |-> [k \in DOMAIN tree.nodes |-> tree.nodes[k]], Size |-> NewFileTree.Size]

\* tree.Copy() (142-155): a deep copy of the nodes, with the same Size.
Copy(tree) ==
    [nodes |-> [k \in DOMAIN tree.nodes |-> tree.nodes[k]], Size |-> tree.Size]

(***************************************************************************)
(* FileTree: Stack, Compare, StackRange (tree.go 174-190, 249-294).        *)
(***************************************************************************)
\* The visitor graft of Stack (175-188), applied to one node of upper.
StackGraft(tree, upper, node) ==
    IF IsWhiteout(node) THEN RemovePath(tree, Path(node))
    ELSE LET r == AddPath(tree, Path(node), upper.nodes[node].FileInfo)
         IN  [tree |-> r.tree, err |-> r.err]

\* upper.VisitDepthChildFirst(graft, nil) along the visit order: the first
\* error ends the visit and is returned.
RECURSIVE StackVisit(_, _, _)
StackVisit(tree, upper, order) ==
    IF order = <<>> THEN [tree |-> tree, err |-> FALSE]
    ELSE LET r == StackGraft(tree, upper, Head(order))
         IN  IF r.err THEN [tree |-> r.tree, err |-> TRUE]
             ELSE StackVisit(r.tree, upper, Tail(order))

\* Stack with a visit that goes on after an error of the visitor.
RECURSIVE StackVisitAll(_, _, _)
StackVisitAll(tree, upper, order) ==
    IF order = <<>> THEN [tree |-> tree, err |-> FALSE]
    ELSE LET r == StackGraft(tree, upper, Head(order))
             rest == StackVisitAll(r.tree, upper, Tail(order))
         IN  [tree |-> rest.tree, err |-> r.err \/ rest.err]

\* Stack whose visitor skips whiteout nodes instead of removing their path.
RECURSIVE StackWithoutRemoval(_, _, _)
StackWithoutRemoval(tree, upper, order) ==
    IF order = <<>> THEN [tree |-> tree, err |-> FALSE]
    ELSE IF IsWhiteout(Head(order)) THEN StackWithoutRemoval(tree, upper, Tail(order))
    ELSE LET r == StackGraft(tree, upper, Head(order))
         IN  IF r.err THEN [tree |-> r.tree, err |-> TRUE]
             ELSE StackWithoutRemoval(r.tree, upper, Tail(order))

\* tree.Stack(upper) (174-190), upper visited in the given order.
Stack(tree, upper, order) == StackVisit(tree, upper, order)

\* The visitor of Compare assigning the result of compare to a node found in
\* lower (AssignDiffType for deriveDiffType at line 266).
CompareGraftAssigns(tree, upper, upperNode) ==
    IF IsWhiteout(upperNode) THEN markRemoved(tree, Path(upperNode))
    ELSE LET got == GetNode(tree, Path(upperNode))
         IN  IF got.err
             THEN LET r == AddPath(tree, Path(upperNode), upper.nodes[upperNode].FileInfo)
                  IN  IF r.err THEN [tree |-> r.tree, err |-> TRUE]
                      ELSE [tree |-> AssignDiffType(r.tree, r.node, Added),
                            err  |-> FALSE]
             ELSE [tree |-> AssignDiffType(tree, got.node,
                                compare(tree.nodes[got.node], upper.nodes[upperNode])),
                   err  |-> FALSE]

\* The visitor of Compare without the test of line 258: every node of upper
\* that is no whiteout is added and classified Added.
CompareGraftAlwaysAdds(tree, upper, upperNode) ==
    IF IsWhiteout(upperNode) THEN markRemoved(tree, Path(upperNode))
    ELSE LET r == AddPath(tree, Path(upperNode), upper.nodes[upperNode].FileInfo)
         IN  IF r.err THEN [tree |-> r.tree, err |-> TRUE]
             ELSE [tree |-> AssignDiffType(r.tree, r.node, Added), err |-> FALSE]

\* The visitor graft of Compare (250-270), applied to one node of upper.
CompareGraft(tree, upper, upperNode) ==
    IF IsWhiteout(upperNode) THEN markRemoved(tree, Path(upperNode))
    ELSE LET got == GetNode(tree, Path(upperNode))
         IN  IF got.err
             THEN LET r == AddPath(tree, Path(upperNode), upper.nodes[upperNode].FileInfo)
                  IN  IF r.err THEN [tree |-> r.tree, err |-> TRUE]
                      ELSE [tree |-> AssignDiffType(r.tree, r.node, Added),
                            err  |-> FALSE]
             ELSE [tree |-> deriveDiffType(tree, got.node,
                                compare(tree.nodes[got.node], upper.nodes[upperNode])),
                   err  |-> FALSE]

RECURSIVE CompareVisit(_, _, _)
CompareVisit(tree, upper, order) ==
    IF order = <<>> THEN [tree |-> tree, err |-> FALSE]
    ELSE LET r == CompareGraft(tree, upper, Head(order))
         IN  IF r.err THEN [tree |-> r.tree, err |-> TRUE]
             ELSE CompareVisit(r.tree, upper, Tail(order))

\* tree.Compare(upper) (249-272), upper visited in the given order.
Compare(tree, upper, order) == CompareVisit(tree, upper, order)

\* The loop of StackRange (286-291) from layer idx: the results it can end
\* with, each with the log of the layers whose Stack returned an error.
RECURSIVE StackRangeLoop(_, _, _, _)
StackRangeLoop(ts, acc, idx, stop) ==
    IF idx > stop THEN {acc}
    ELSE UNION {
           LET r == Stack(acc.tree, ts[idx], o)
           IN  StackRangeLoop(ts,
                   [tree |-> r.tree,
                    log  |-> IF r.err THEN Append(acc.log, idx) ELSE acc.log],
                   idx + 1, stop)
           : o \in VisitOrders(ts[idx], Root) }

\* StackRange whose loop ends before the last tree of the range.
StackRangeShort(ts, start, stop) ==
    StackRangeLoop(ts, [tree |-> Copy(ts[0]), log |-> <<>>], start, stop - 1)

\* StackRange(trees, start, stop) (284-294): a copy of trees[0], then every
\* tree of start..stop stacked on it.
StackRange(ts, start, stop) ==
    StackRangeLoop(ts, [tree |-> Copy(ts[0]), log |-> <<>>], start, stop)

(***************************************************************************)
(* Rendering (tree.go 55-134).                                             *)
(***************************************************************************)
\* The loop over the sorted keys (76-102) from position idx: the
\* renderParams of the children to visit.
RECURSIVE ChildParams(_, _, _, _)
ChildParams(tree, currentParams, keys, idx) ==
    IF idx > Len(keys) THEN <<>>
    ELSE LET child == Append(currentParams.node, keys[idx])
             data == tree.nodes[child]
             hasChildren == Children(tree, child) # {}
             \* idx counts from 1 here and from 0 in the source
             isLast == idx = Cardinality(Children(tree, currentParams.node))
             showCollapsed == data.Collapsed /\ hasChildren
             childSpaces == IF hasChildren /\ ~data.Collapsed
                            THEN Append(currentParams.childSpaces, isLast)
                            ELSE currentParams.childSpaces
             rest == ChildParams(tree, currentParams, keys, idx + 1)
         IN  IF data.Hidden \/ tree.nodes[currentParams.node].Collapsed
             THEN rest
             ELSE <<[node |-> child, spaces |-> currentParams.childSpaces,
                     childSpaces |-> childSpaces,
                     showCollapsed |-> showCollapsed, isLast |-> isLast]>> \o rest

\* The visiting loop (62-116): the renderParams of the rows to render.
RECURSIVE RenderLoop(_, _, _, _, _, _)
RenderLoop(tree, paramsToVisit, currentRow, startRow, stopRow, params) ==
    IF paramsToVisit = <<>> \/ currentRow > stopRow THEN params
    ELSE LET currentParams == Head(paramsToVisit)
             keys == SortStrings({Name(k) : k \in Children(tree, currentParams.node)})
             toVisit == ChildParams(tree, currentParams, keys, 1) \o Tail(paramsToVisit)
         IN  IF currentParams.node = Root
             THEN RenderLoop(tree, toVisit, currentRow, startRow, stopRow, params)
             ELSE RenderLoop(tree, toVisit, currentRow + 1, startRow, stopRow,
                      IF currentRow >= startRow /\ currentRow <= stopRow
                      THEN Append(params, currentParams) ELSE params)

\* node.renderTreeLine(spaces, last, collapsed): one row, field by field.
renderTreeLine(node, spaces, isLast, showCollapsed) ==
    [indent |-> spaces,
     branch |-> IF isLast THEN lastItem ELSE middleItem,
     item   |-> IF showCollapsed THEN collapsedItem ELSE uncollapsedItem,
     name   |-> Name(node),
     node   |-> node]

\* tree.renderStringTreeBetween(startRow, stopRow, false) (55-129): the
\* rows of the result, in order.
renderStringTreeBetween(tree, startRow, stopRow) ==
    LET params == RenderLoop(tree,
                      <<[node |-> Root, spaces |-> <<>>, childSpaces |-> <<>>,
                         showCollapsed |-> FALSE, isLast |-> FALSE]>>,
                      0, startRow, stopRow, <<>>)
    IN  [i \in 1..Len(params) |->
            renderTreeLine(params[i].node, params[i].spaces,
                           params[i].isLast, params[i].showCollapsed)]

\* tree.String(false) (132-134)
String(tree) == renderStringTreeBetween(tree, 0, tree.Size)

(***************************************************************************)
(* The state: the trees of the program, and a record of the last call:     *)
(* the operation, its receiver and argument, its inputs, its error result, *)
(* and for Stack and Compare the receiver as it was before the call (pre)  *)
(* and the order in which upper was visited.                               *)
(***************************************************************************)
\* The two trees of the specifications about one call: a receiver and an
\* argument, in either role.
Pair == {0, 1}

Record(op, recv, arg, path, data, pre, order, err, out) ==
    [op |-> op, recv |-> recv, arg |-> arg, path |-> path, data |-> data,
     pre |-> pre, order |-> order, err |-> err, out |-> out]

NoCall == Record("none", 0, 0, <<>>, EmptyFileInfo, NewFileTree, <<>>, FALSE, <<>>)

Init ==
    /\ trees = [i \in Pair |-> NewFileTree]
    /\ last = NoCall

\* trees[i].AddPath(path, data)
DoAddPath(i, path, data) ==
    LET r == AddPath(trees[i], path, data)
    IN  /\ r.tree.Size <= MaxNodes
        /\ trees' = [trees EXCEPT ![i] = r.tree]
        /\ last' = Record("AddPath", i, i, path, data, NewFileTree, <<>>, r.err, r.node)

\* trees[i].RemovePath(path)
DoRemovePath(i, path) ==
    LET r == RemovePath(trees[i], path)
    IN  /\ trees' = [trees EXCEPT ![i] = r.tree]
        /\ last' = Record("RemovePath", i, i, path, EmptyFileInfo, NewFileTree, <<>>,
                          r.err, <<>>)

\* trees[i].Stack(trees[j])
DoStack(i, j) ==
    /\ i # j
    /\ \E order \in VisitOrders(trees[j], Root) :
         LET r == Stack(trees[i], trees[j], order)
         IN  /\ trees' = [trees EXCEPT ![i] = r.tree]
             /\ last' = Record("Stack", i, j, <<>>, EmptyFileInfo, trees[i], order,
                               r.err, <<>>)

\* trees[i].Compare(trees[j])
DoCompare(i, j) ==
    /\ i # j
    /\ \E order \in VisitOrders(trees[j], Root) :
         LET r == Compare(trees[i], trees[j], order)
         IN  /\ trees' = [trees EXCEPT ![i] = r.tree]
             /\ last' = Record("Compare", i, j, <<>>, EmptyFileInfo, trees[i], order,
                               r.err, <<>>)

\* trees[j] = trees[i].Copy()
DoCopy(i, j) ==
    /\ i # j
    /\ trees' = [trees EXCEPT ![j] = Copy(trees[i])]
    /\ last' = Record("Copy", j, i, <<>>, EmptyFileInfo, NewFileTree, <<>>, FALSE, <<>>)

(***************************************************************************)
(* Spec: any sequence of AddPath, RemovePath, Stack, Compare and Copy on   *)
(* two trees.  Tree 0 is the receiver of Stack and Compare and is replaced *)
(* by the result of Copy; tree 1 is their argument.                        *)
(***************************************************************************)
\* The paths and payloads the calls are given: "/a", "/a/b", "/c", "/.wh.a".
SpecPaths ==
    { <<"/", "a">>, <<"/", "a", "/", "b">>, <<"/", "c">>,
      <<"/", ".", "w", "h", ".", "a">> }

SpecInputs ==
    { <<<<"/", "a", "/", "b">>, FileInfoOf(10)>>,
      <<<<"/", "c">>, FileInfoOf(10)>>,
      <<<<"/", ".", "w", "h", ".", "a">>, EmptyFileInfo>> }

Next ==
    \/ \E i \in Pair, in \in SpecInputs : DoAddPath(i, in[1], in[2])
    \/ \E i \in Pair, path \in SpecPaths \cup {<<"/">>} : DoRemovePath(i, path)
    \/ DoStack(0, 1)
    \/ DoCompare(0, 1)
    \/ DoCopy(1, 0)

Spec == Init /\ [][Next]_vars

\* The number of nodes reachable from the root, the root excluded.
NodeCount(tree) == Cardinality(DOMAIN tree.nodes) - 1

\* C7: in every reachable state, each tree's Size is the number of nodes
\* reachable from its Root, the Root excluded.
SizeCountsNodes == \A i \in DOMAIN trees : trees[i].Size = NodeCount(trees[i])

\* C7 witness: a Stack that an error ended part-way, after it had added
\* nodes to the receiver.
SizeAfterAbortedStack ==
    /\ last.op = "Stack"
    /\ last.err
    /\ trees[last.recv].Size > last.pre.Size
    /\ trees[last.recv].Size = NodeCount(trees[last.recv])

(***************************************************************************)
(* SpecPath: AddPath and RemovePath with paths in every written form.      *)
(***************************************************************************)
\* "", "/", "a", "/a", "/a/", "//a//b/", "/a/b", "a/b//"
PathForms ==
    { <<>>, <<"/">>, <<"a">>, <<"/", "a">>, <<"/", "a", "/">>,
      <<"/", "/", "a", "/", "/", "b", "/">>, <<"/", "a", "/", "b">>,
      <<"a", "/", "b", "/", "/">> }

PathPayloads == {FileInfoOf(10), FileInfoOf(20)}

NextPath ==
    \/ \E i \in Pair, path \in PathForms, data \in PathPayloads :
         DoAddPath(i, path, data)
    \/ \E i \in Pair, path \in PathForms : DoRemovePath(i, path)

SpecPath == Init /\ [][NextPath]_vars

\* The payload GetNode(path) finds in the receiver of the last call, and
\* whether it finds a node at all.
FoundPayload(path, data) ==
    LET got == GetNode(trees[last.recv], path)
    IN  /\ ~got.err
        /\ trees[last.recv].nodes[got.node].FileInfo = data

\* The path names at least one node: it has a character other than "/".
HasSegment(path) == \E i \in 1..Len(path) : path[i] # "/"

\* C5 as stated: after AddPath(p, d), for every path p, GetNode(p) returns
\* without error a node whose payload is d.
AddPathThenGetNodeAnyPath ==
    last.op = "AddPath" => FoundPayload(last.path, last.data)

\* C5 amended: after AddPath(p, d) returned no error, for every path p with
\* at least one non-empty segment, GetNode(p) returns without error a node
\* whose payload is d.
AddPathThenGetNode ==
    (last.op = "AddPath" /\ ~last.err /\ HasSegment(last.path))
        => FoundPayload(last.path, last.data)

\* C5 witness: AddPath of a path with repeated and trailing slashes onto a
\* tree that held the node with another payload.
AddPathOverwrote ==
    /\ last.op = "AddPath"
    /\ last.path = <<"/", "/", "a", "/", "/", "b", "/">>
    /\ last.data = FileInfoOf(20)
    /\ FoundPayload(<<"/", "a", "/", "b">>, FileInfoOf(20))
    /\ trees[last.recv].Size = 2

(***************************************************************************)
(* SpecStack: two layers built with AddPath, tree 0 stacked under tree 1   *)
(* by Stack, and the two stacked by StackRange.                            *)
(***************************************************************************)
\* StackRange(trees, start, stop): trees is left as it is; the tree returned
\* and the log of the failed layers are recorded.
DoStackRange(start, stop) ==
    \E outcome \in StackRange(trees, start, stop) :
        /\ trees' = trees
        /\ last' = Record("StackRange", start, stop, <<>>, EmptyFileInfo, NewFileTree,
                          <<>>, outcome.log # <<>>, outcome)

\* "/a", "/a/b", "/a/.wh.b", "/.wh.a", "/a/.wh..wh..", "/a/.wh.b/c"
StackInputs ==
    { <<<<"/", "a">>, FileInfoOf(10)>>,
      <<<<"/", "a", "/", "b">>, FileInfoOf(20)>>,
      <<<<"/", "a", "/", ".", "w", "h", ".", "b">>, EmptyFileInfo>>,
      <<<<"/", ".", "w", "h", ".", "a">>, EmptyFileInfo>>,
      <<<<"/", "a", "/", ".", "w", "h", ".", ".", "w", "h", ".", ".">>, EmptyFileInfo>>,
      <<<<"/", "a", "/", ".", "w", "h", ".", "b", "/", "c">>, FileInfoOf(10)>> }

NextStack ==
    \/ \E i \in Pair, in \in StackInputs : DoAddPath(i, in[1], in[2])
    \/ DoStack(0, 1)
    \/ \E start \in Pair, stop \in Pair : DoStackRange(start, stop)

SpecStack == Init /\ [][NextStack]_vars

\* The receiver and the argument of the last call, as they are now.
Lower == trees[last.recv]

Upper == trees[last.arg]

\* The path that names the node of a key: "/" and the joined names.
KeyPath(node) == <<"/">> \o JoinSlash(node)

\* The node a whiteout node shadows: its sibling named without the prefix.
Shadowed(node) == Append(Parent(node), TrimPrefix(Name(node), whiteoutPrefix))

\* The whiteout nodes of upper that shadow a path lower had and upper lacks.
ShadowingWhiteouts ==
    {w \in (DOMAIN Upper.nodes) \ {Root} :
        /\ IsWhiteout(w)
        /\ Shadowed(w) \in DOMAIN last.pre.nodes
        /\ Shadowed(w) \notin DOMAIN Upper.nodes}

OpaqueMarkerClearsDirectory ==
    last.op = "Stack" =>
        \A w \in (DOMAIN Upper.nodes) \ {Root} :
            ( /\ HasPrefix(Name(w), doubleWhiteoutPrefix)
              /\ Parent(w) \in DOMAIN last.pre.nodes
              /\ Children(last.pre, Parent(w)) # {} )
            => Children(Lower, Parent(w))
                 = {k \in Children(Upper, Parent(w)) : ~IsWhiteout(k)}

\* The receiver after the visitor of Stack has met the first n nodes of the
\* order, whatever it returned for them.
RECURSIVE GraftPrefix(_, _, _, _)
GraftPrefix(tree, upper, order, n) ==
    IF n = 0 THEN tree
    ELSE StackGraft(GraftPrefix(tree, upper, order, n - 1), upper, order[n]).tree

\* The positions of the order at which the visitor of Stack returns an error.
GraftFailures(tree, upper, order) ==
    {n \in 1..Len(order) :
        StackGraft(GraftPrefix(tree, upper, order, n - 1), upper, order[n]).err}

Least(S) == CHOOSE n \in S : \A m \in S : n <= m

\* C9: a Stack that meets a whiteout node whose shadowed path lower lacks
\* returns an error for the first such node of the visit, applies no node
\* after it and keeps what it applied before it; no such node, no error.
\* StackRange stacks the last layer of its range whatever the layers before
\* it returned.
StackStopsAtFirstError ==
    /\ last.op = "Stack" =>
         LET fails == GraftFailures(last.pre, Upper, last.order)
         IN  IF fails = {}
             THEN /\ ~last.err
                  /\ Lower = GraftPrefix(last.pre, Upper, last.order, Len(last.order))
             ELSE LET n == Least(fails)
                      before == GraftPrefix(last.pre, Upper, last.order, n - 1)
                  IN  /\ last.err
                      /\ Lower = before
                      /\ IsWhiteout(last.order[n])
                      /\ GetNode(before, Path(last.order[n])).err
    /\ (/\ last.op = "StackRange"
        /\ last.recv <= last.arg
        /\ \A k \in DOMAIN trees[last.arg].nodes : ~IsWhiteout(k))
       => \A k \in DOMAIN trees[last.arg].nodes :
            /\ k \in DOMAIN last.out.tree.nodes
            /\ last.out.tree.nodes[k].FileInfo = trees[last.arg].nodes[k].FileInfo

\* C9 witness: a Stack that returned an error after it had changed lower,
\* with a node of upper after the failing one that lower does not have.
StackAbortedPartWay ==
    /\ last.op = "Stack"
    /\ last.err
    /\ Lower # last.pre
    /\ \E n \in 1..Len(last.order) :
         /\ n > Least(GraftFailures(last.pre, Upper, last.order))
         /\ ~IsWhiteout(last.order[n])
         /\ last.order[n] \notin DOMAIN Lower.nodes

\* A StackRange that logged an error of its first layer and stacked the
\* second, which has nodes the first lacks.
StackRangeWentOn ==
    /\ last.op = "StackRange"
    /\ last.recv = 0 /\ last.arg = 1
    /\ 0 \in {last.out.log[n] : n \in 1..Len(last.out.log)}
    /\ \A k \in DOMAIN trees[1].nodes : ~IsWhiteout(k)
    /\ \E k \in DOMAIN trees[1].nodes : k \notin DOMAIN trees[0].nodes

(***************************************************************************)
(* SpecCompare: a lower tree (0) and an upper tree (1) built with AddPath  *)
(* or as a copy of the lower one, then compared.                           *)
(***************************************************************************)
\* "/a", "/a/b" (size 10 or 20), "/a/c", "/a/d", "/a/.wh.b"
CompareInputs ==
    { <<<<"/", "a">>, FileInfoOf(10)>>,
      <<<<"/", "a", "/", "b">>, FileInfoOf(10)>>,
      <<<<"/", "a", "/", "b">>, FileInfoOf(20)>>,
      <<<<"/", "a", "/", "c">>, FileInfoOf(10)>>,
      <<<<"/", "a", "/", "d">>, FileInfoOf(10)>>,
      <<<<"/", "a", "/", ".", "w", "h", ".", "b">>, EmptyFileInfo>> }

\* No node of the tree has been classified.
Unclassified(tree) == \A k \in DOMAIN tree.nodes : tree.nodes[k].DiffType = Unset

\* The trees are built before they are compared.
NextCompare ==
    \/ /\ Unclassified(trees[0])
       /\ \E i \in Pair, in \in CompareInputs : DoAddPath(i, in[1], in[2])
    \/ DoCopy(0, 1)
    \/ DoCompare(0, 1)

SpecCompare == Init /\ [][NextCompare]_vars

NodeA == << <<"a">> >>

NodeAB == << <<"a">>, <<"b">> >>

NodeAC == << <<"a">>, <<"c">> >>

NodeAD == << <<"a">>, <<"d">> >>

\* The last call is lower.Compare(upper) with lower = { /a, /a/b (size 10),
\* /a/c }, not yet classified, and upper = { /a, /a/b (size 20), /a/d }.
ModifiedRemovedAddedCase ==
    /\ last.op = "Compare"
    /\ DOMAIN last.pre.nodes = {Root, NodeA, NodeAB, NodeAC}
    /\ last.pre.nodes[NodeAB].FileInfo.Size = 10
    /\ Unclassified(last.pre)
    /\ DOMAIN Upper.nodes = {Root, NodeA, NodeAB, NodeAD}
    /\ Upper.nodes[NodeAB].FileInfo.Size = 20

DiffTypeOf(tree, node) ==
    IF node \in DOMAIN tree.nodes THEN tree.nodes[node].DiffType ELSE "absent"

WhiteoutFree(tree) == \A k \in DOMAIN tree.nodes : ~IsWhiteout(k)

\* No node of the tree is classified Added, Modified or Removed.
Unescalated(tree) ==
    \A k \in DOMAIN tree.nodes : tree.nodes[k].DiffType \in {Unset, Unmodified}

\* Compare added no node and left every node but the root Unmodified.
AllUnmodified ==
    /\ ~last.err
    /\ DOMAIN Lower.nodes = DOMAIN last.pre.nodes
    /\ \A k \in (DOMAIN Lower.nodes) \ {Root} : Lower.nodes[k].DiffType = Unmodified

\* C6 as stated: for every tree t, t.Compare(t.Copy()) returns no error,
\* adds no node and leaves every node but the root Unmodified.
CompareWithCopyAnyTree ==
    (last.op = "Compare" /\ Upper = Copy(last.pre)) => AllUnmodified

\* C6 amended: the same for every tree t that has no whiteout node and no
\* node already classified Added, Modified or Removed.
CompareWithCopy ==
    ( /\ last.op = "Compare"
      /\ Upper = Copy(last.pre)
      /\ WhiteoutFree(last.pre)
      /\ Unescalated(last.pre) ) => AllUnmodified

\* C6 witness: a tree of three nodes compared with its copy.
ComparedWithCopy ==
    /\ last.op = "Compare"
    /\ Upper = Copy(last.pre)
    /\ WhiteoutFree(last.pre)
    /\ Unescalated(last.pre)
    /\ last.pre.Size = 3
    /\ AllUnmodified

\* No name of the path carries the whiteout prefix.
PlainPath(node) == \A n \in 1..Len(node) : ~HasPrefix(node[n], whiteoutPrefix)

\* C8 as stated: after lower.Compare(upper) returned no error, every
\* non-whiteout path of upper that lower did not have before the call is in
\* lower and classified Added.
NewPathsAreAdded ==
    (last.op = "Compare" /\ ~last.err) =>
        \A k \in (DOMAIN Upper.nodes) \ {Root} :
            (PlainPath(k) /\ k \notin DOMAIN last.pre.nodes)
            => DiffTypeOf(Lower, k) = Added

(***************************************************************************)
(* SpecRange: the layers trees[0..MaxLayer] built with AddPath, and        *)
(* StackRange(trees, 0, stop).                                             *)
(***************************************************************************)
Layers == 0..MaxLayer

\* "/a" (size 10 or 20), "/.wh.a"
RangeInputs ==
    { <<<<"/", "a">>, FileInfoOf(10)>>,
      <<<<"/", "a">>, FileInfoOf(20)>>,
      <<<<"/", ".", "w", "h", ".", "a">>, EmptyFileInfo>> }

InitRange ==
    /\ trees = [i \in Layers |-> NewFileTree]
    /\ last = NoCall

NextRange ==
    \/ \E i \in Layers, in \in RangeInputs : DoAddPath(i, in[1], in[2])
    \/ \E stop \in Layers : DoStackRange(0, stop)

SpecRange == InitRange /\ [][NextRange]_vars

\* The two trees have the same paths.
SamePaths(t1, t2) == DOMAIN t1.nodes = DOMAIN t2.nodes

\* The two trees have the same payload at the path.
SamePayloadAt(t1, t2, k) == t1.nodes[k].FileInfo = t2.nodes[k].FileInfo

\* The trees A.Stack(B) can leave in A, for A a result of
\* StackRange(trees, 0, k) and B one of StackRange(trees, k + 1, n).
StackedInTwo(k, n) ==
    UNION { UNION { { Stack(A.tree, B.tree, o).tree : o \in VisitOrders(B.tree, Root) }
                    : B \in StackRange(trees, k + 1, n) }
            : A \in StackRange(trees, 0, k) }

\* C4 as stated: the tree StackRange(trees, 0, n) returns has the paths and
\* payloads of A := StackRange(trees, 0, k); A.Stack(StackRange(trees, k+1, n))
\* for every k with 0 <= k < n, whiteout nodes in the layers or not.
StackRangeSplits ==
    last.op = "StackRange" =>
        \A k \in 0..(last.arg - 1) :
            \A T \in StackedInTwo(k, last.arg) :
                /\ SamePaths(last.out.tree, T)
                /\ \A p \in DOMAIN T.nodes : SamePayloadAt(last.out.tree, T, p)

\* The path is in a layer of lo..hi.
InLayers(p, lo, hi) == \E i \in lo..hi : p \in DOMAIN trees[i].nodes

\* C4 amended: when no layer has a whiteout node, the tree
\* StackRange(trees, 0, n) returns has the paths of
\* A := StackRange(trees, 0, k); A.Stack(StackRange(trees, k+1, n)), and the
\* same payload at every path except the paths of trees[0] that no layer of
\* k+1..n has (StackRange(trees, k+1, n) starts from a copy of trees[0], and
\* stacking it puts the payloads of trees[0] back).
StackRangeSplitsPaths ==
    (last.op = "StackRange" /\ \A i \in 0..last.arg : WhiteoutFree(trees[i])) =>
        \A k \in 0..(last.arg - 1) :
            \A T \in StackedInTwo(k, last.arg) :
                /\ SamePaths(last.out.tree, T)
                /\ \A p \in DOMAIN T.nodes :
                      (p \notin DOMAIN trees[0].nodes \/ InLayers(p, k + 1, last.arg))
                      => SamePayloadAt(last.out.tree, T, p)

\* C4 witness: three layers without whiteout nodes stacked, the first two
\* with different payloads at a path that the third lacks.
StackRangeOfThree ==
    /\ last.op = "StackRange"
    /\ last.arg = 2
    /\ \A i \in 0..2 : WhiteoutFree(trees[i])
    /\ \E p \in (DOMAIN trees[0].nodes) \cap (DOMAIN trees[1].nodes) :
         /\ trees[0].nodes[p].FileInfo # trees[1].nodes[p].FileInfo
         /\ p \notin DOMAIN trees[2].nodes
         /\ last.out.tree.nodes[p].FileInfo = trees[1].nodes[p].FileInfo

(***************************************************************************)
(* SpecRender: one tree built by AddPath, its nodes' view flags set by the *)
(* caller, and rendered by String.                                         *)
(***************************************************************************)
\* node.Data.ViewInfo = {Collapsed: collapsed, Hidden: hidden}, set by the
\* caller on a node of trees[i]
DoSetView(i, node, hidden, collapsed) ==
    /\ node \in DOMAIN trees[i].nodes
    /\ trees' = [trees EXCEPT ![i].nodes[node] =
                    [@ EXCEPT !.Hidden = hidden, !.Collapsed = collapsed]]
    /\ last' = Record("SetView", i, i, <<>>, EmptyFileInfo, NewFileTree, <<>>, FALSE, <<>>)

\* trees[i].String(false)
DoString(i) ==
    /\ UNCHANGED trees
    /\ last' = Record("String", i, i, <<>>, EmptyFileInfo, NewFileTree, <<>>, FALSE,
                      String(trees[i]))

\* "/a", "/a/b", "/x", "/b"
RenderPaths ==
    { <<"/", "a">>, <<"/", "a", "/", "b">>, <<"/", "x">>, <<"/", "b">> }

NextRender ==
    \/ \E path \in RenderPaths : DoAddPath(0, path, EmptyFileInfo)
    \/ \E node \in DOMAIN trees[0].nodes, hidden \in BOOLEAN, collapsed \in BOOLEAN :
         DoSetView(0, node, hidden, collapsed)
    \/ DoString(0)

SpecRender == Init /\ [][NextRender]_vars

\* The node gets a row: neither it nor a node above it is Hidden, and no
\* node above it (the root included) is Collapsed.
Visible(tree, node) ==
    /\ node # Root
    /\ \A n \in 1..Len(node) : ~tree.nodes[SubSeq(node, 1, n)].Hidden
    /\ \A n \in 0..(Len(node) - 1) : ~tree.nodes[SubSeq(node, 1, n)].Collapsed

\* node1 comes before node2 in depth-first pre-order with siblings in
\* lexicographic name order.
RECURSIVE PreOrderLess(_, _)
PreOrderLess(node1, node2) ==
    IF node1 = <<>> THEN node2 # <<>>
    ELSE IF node2 = <<>> THEN FALSE
    ELSE IF Head(node1) = Head(node2) THEN PreOrderLess(Tail(node1), Tail(node2))
    ELSE StringLess(Head(node1), Head(node2))

\* The rows are those of the visible nodes, in pre-order.
RowsInOrder(tree, rows) ==
    /\ { rows[r].node : r \in DOMAIN rows } = { k \in DOMAIN tree.nodes : Visible(tree, k) }
    /\ \A r1, r2 \in DOMAIN rows : r1 < r2 => PreOrderLess(rows[r1].node, rows[r2].node)

\* The node is the last child of its parent that gets a row.
LastVisibleChild(tree, node) ==
    \A k \in Children(tree, Parent(node)) :
        (k # node /\ ~tree.nodes[k].Hidden) => StringLess(Name(k), Name(node))

\* The rows carry the last-item glyph exactly at the last child of a parent
\* that gets a row, and the middle glyph elsewhere.
GlyphsMarkLast(tree, rows) ==
    \A r \in DOMAIN rows :
        rows[r].branch = IF LastVisibleChild(tree, rows[r].node)
                         THEN lastItem ELSE middleItem

\* C10: String emits the rows of the visible nodes in depth-first pre-order
\* with siblings in lexicographic name order, and a row has the last-item
\* glyph exactly when its node is the last child of its parent that gets a
\* row (hidden siblings do not count), the middle glyph otherwise.
StringRowsAndGlyphs ==
    last.op = "String" =>
        /\ RowsInOrder(trees[last.recv], last.out)
        /\ GlyphsMarkLast(trees[last.recv], last.out)

\* The row order alone.
StringRowsInOrder ==
    last.op = "String" => RowsInOrder(trees[last.recv], last.out)

====
